---- MODULE Spec2Model ----
(***************************************************************************)
(* The trajectory cleaning pipeline of traclus/processing.py:              *)
(*   calculate_trajectory_features -> filter_invalid_moves ->              *)
(*   preprocess_data                                                       *)
(*                                                                         *)
(* A DataFrame is a sequence of rows; a row is a record holding the index  *)
(* label (idx) and the columns.  Floating point columns are fixed point:   *)
(*   Latitude, Longitude   micro-degrees                                   *)
(*   DateTime              microseconds since an epoch                     *)
(*   TimeDiff_s            microseconds (1e-6 s)                           *)
(*   DistJump_m            micrometres  (1e-6 m)                           *)
(*   Speed_kmh, max_speed  milli-km/h   (1e-3 km/h)                        *)
(* NaN / NaT is the sentinel NaN, as in the source.                        *)
(***************************************************************************)
EXTENDS Integers, Sequences, FiniteSets, TLC

\* ------------------------------------------------------------------ bounds
\* rows of the table uploaded to the pipeline
MaxRows == 3
\* rows of a table handed directly to preprocess_data
MaxBuilderRows == 4

\* ------------------------------------------------------------- constants
NaN == -1000000000
EARTH_RADIUS_KM == 6371
\* TimeDiff_s > 1e-6, in microseconds
MIN_TIME_DIFF == 1
\* the default max_speed_kmh = 150, in milli-km/h
DEFAULT_MAX_SPEED == 150000

\* micrometres per micro-degree of arc: EARTH_RADIUS_KM * 1000 * pi / 180
ArcLength == (EARTH_RADIUS_KM * 174533) \div 10000

isna(x) == x = NaN
notna(x) == x # NaN

ISqrt(n) == CHOOSE r \in 0..n : r * r <= n /\ (r + 1) * (r + 1) > n

\* ------------------------------------------------------------- haversine
\* Small-angle form of the haversine formula near the equator, where
\* a = (dlat^2 + dlon^2) / 4 and c = 2 * asin(sqrt(a)) = sqrt(dlat^2 + dlon^2).
haversine(lon1, lat1, lon2, lat2) ==
    IF isna(lon1) \/ isna(lat1) \/ isna(lon2) \/ isna(lat2) THEN NaN
    ELSE LET dlon == lon2 - lon1
             dlat == lat2 - lat1
             c100 == ISqrt((dlat * dlat + dlon * dlon) * 10000)
         IN (c100 * ArcLength) \div 100

\* ------------------------------------------------------- frame primitives
Column(df, c) == [i \in DOMAIN df |-> df[i][c]]
Range(s) == {s[i] : i \in DOMAIN s}
GroupKeys(df) == {df[i].TaxiID : i \in DOMAIN df}
Group(df, k) == SelectSeq(df, LAMBDA r : r.TaxiID = k)

\* the keys of a groupby(sort=True), ascending
SortedKeys(S) ==
    [i \in 1..Cardinality(S) |->
        CHOOSE k \in S : Cardinality({j \in S : j < k}) = i - 1]

\* NaT sorts last (na_position='last'); NaT ties with NaT
DateTimeBefore(a, b) == notna(a) /\ (isna(b) \/ a < b)

\* r sorts before s by the given columns
Before(by, r, s) ==
    IF by = "TaxiID, DateTime"
    THEN \/ r.TaxiID < s.TaxiID
         \/ r.TaxiID = s.TaxiID /\ DateTimeBefore(r.DateTime, s.DateTime)
    ELSE DateTimeBefore(r.DateTime, s.DateTime)

\* r put into a sorted frame: behind the rows it is equal to when keep_order,
\* in front of them otherwise
RECURSIVE InsertRow(_, _, _, _)
InsertRow(sorted, r, by, keep_order) ==
    IF sorted = <<>> THEN <<r>>
    ELSE IF \/ Before(by, r, Head(sorted))
            \/ ~keep_order /\ ~Before(by, Head(sorted), r)
         THEN <<r>> \o sorted
         ELSE <<Head(sorted)>> \o InsertRow(Tail(sorted), r, by, keep_order)

\* The frame sorted by the given columns.  A stable sort keeps the order of
\* equal rows; the other one reverses it, except for the rows with NaT, which
\* sort_values sets aside and appends in their original order.
RECURSIVE SortValues(_, _, _)
SortValues(df, by, kind) ==
    IF df = <<>> THEN <<>>
    ELSE LET r == df[Len(df)]
         IN InsertRow(SortValues(SubSeq(df, 1, Len(df) - 1), by, kind), r, by,
                      kind = "stable" \/ isna(r.DateTime))

\* faulty variant: a sort that does not keep the order of equal keys
SortValuesTaxiDateTime_unstable(df) == SortValues(df, "TaxiID, DateTime", "unstable")

\* df.sort_values(['TaxiID', 'DateTime']): a lexsort, stable
SortValuesTaxiDateTime(df) == SortValues(df, "TaxiID, DateTime", "stable")

\* x.sort_values('DateTime'): kind='quicksort'; the order of equal timestamps
\* is the sort implementation's: kept ("stable") or not ("unstable")
SortValuesDateTime(df, kind) == SortValues(df, "DateTime", kind)

\* faulty variant: diff() and shift(1) on the frame, not on the groupby
PrevInGroup_ungrouped(df, k) == k - 1

\* gb[...].diff() and gb[...].shift(1) read the previous row of the same group:
\* its position, 0 when there is none
PrevInGroup(df, k) ==
    LET P == {j \in 1..(k - 1) : df[j].TaxiID = df[k].TaxiID}
    IN IF P = {} THEN 0 ELSE CHOOSE j \in P : \A m \in P : m <= j

\* ------------------------------------------ calculate_trajectory_features
\* gb['DateTime'].diff().dt.total_seconds(), from the shifted value
TimeDiff(prev_datetime, datetime) ==
    IF isna(prev_datetime) \/ isna(datetime) THEN NaN
    ELSE datetime - prev_datetime

DistJump(prev_lon, prev_lat, lon, lat) ==
    IF notna(prev_lat) THEN haversine(prev_lon, prev_lat, lon, lat) ELSE NaN

\* faulty variant: TimeDiff_s >= 1e-6
ValidSpeed_ge(prev_lat, time_diff, dist_jump) ==
    /\ notna(prev_lat)
    /\ notna(time_diff) /\ time_diff >= MIN_TIME_DIFF
    /\ notna(dist_jump)

ValidSpeed(prev_lat, time_diff, dist_jump) ==
    /\ notna(prev_lat)
    /\ notna(time_diff) /\ time_diff > MIN_TIME_DIFF
    /\ notna(dist_jump)

Speed(prev_lat, time_diff, dist_jump) ==
    IF ValidSpeed(prev_lat, time_diff, dist_jump)
    THEN (dist_jump * 3600) \div time_diff
    ELSE NaN

calculate_trajectory_features(_df) ==
    LET df == SortValuesTaxiDateTime(_df)
    IN [k \in DOMAIN df |->
          LET p == PrevInGroup(df, k)
              prev_datetime == IF p = 0 THEN NaN ELSE df[p].DateTime
              prev_lat == IF p = 0 THEN NaN ELSE df[p].Latitude
              prev_lon == IF p = 0 THEN NaN ELSE df[p].Longitude
              time_diff == TimeDiff(prev_datetime, df[k].DateTime)
              dist_jump == DistJump(prev_lon, prev_lat, df[k].Longitude, df[k].Latitude)
          IN [df[k] EXCEPT !.TimeDiff_s = time_diff,
                           !.DistJump_m = dist_jump,
                           !.Speed_kmh = Speed(prev_lat, time_diff, dist_jump)]]

\* --------------------------------------------------- filter_invalid_moves
\* faulty variant: Speed_kmh >= max_speed_kmh
invalid_ge(r, max_speed) == notna(r.Speed_kmh) /\ r.Speed_kmh >= max_speed

invalid(r, max_speed) == notna(r.Speed_kmh) /\ r.Speed_kmh > max_speed

\* faulty variant: the features of the retained points are derived again
filter_invalid_moves_rederived(_df_with_features, has_speed, max_speed) ==
    IF ~has_speed THEN _df_with_features
    ELSE calculate_trajectory_features(
             SelectSeq(_df_with_features, LAMBDA r : ~invalid(r, max_speed)))

filter_invalid_moves(_df_with_features, has_speed, max_speed) ==
    IF ~has_speed THEN _df_with_features
    ELSE SelectSeq(_df_with_features, LAMBDA r : ~invalid(r, max_speed))

\* -------------------------------------------------------- preprocess_data
\* faulty variant: no minimum length
GroupFilter_any(df) == df

\* faulty variant: the length tested is the frame's, not the group's
GroupFilter_frame(df) == IF Len(df) >= 2 THEN df ELSE <<>>

\* grouped.filter(lambda x: len(x) >= 2): the rows of the groups kept, in
\* the frame's order
GroupFilter(df) == SelectSeq(df, LAMBDA r : Len(Group(df, r.TaxiID)) >= 2)

RECURSIVE Concat(_)
Concat(frames) ==
    IF frames = <<>> THEN <<>> ELSE Head(frames) \o Concat(Tail(frames))

\* groupby.apply: the result of some group is not indexed like the group
NotIndexedSame(groups, results) ==
    \E i \in DOMAIN groups : Column(results[i], "idx") # Column(groups[i], "idx")

\* faulty variant: the groups are not sorted again
GroupApplySort_unsorted(df, kind) == df

\* groupby('TaxiID', group_keys=False).apply(lambda x: x.sort_values('DateTime')):
\* the sorted groups concatenated in key order; when every result is indexed
\* like its group the concatenation is reindexed to the frame's own index.
GroupApplySort(df, kind) ==
    LET keys == SortedKeys(GroupKeys(df))
        groups == [i \in DOMAIN keys |-> Group(df, keys[i])]
        results == [i \in DOMAIN keys |-> SortValuesDateTime(groups[i], kind)]
    IN IF NotIndexedSame(groups, results) THEN Concat(results) ELSE df

ResetIndex(df) == [i \in DOMAIN df |-> [df[i] EXCEPT !.idx = i - 1]]

ProcessedDf(_filtered_df, kind) ==
    ResetIndex(GroupApplySort(GroupFilter(_filtered_df), kind))

Values(g) == [i \in DOMAIN g |-> <<g[i].Latitude, g[i].Longitude>>]

RECURSIVE Unique(_)
Unique(s) ==
    IF s = <<>> THEN <<>>
    ELSE LET front == Unique(SubSeq(s, 1, Len(s) - 1))
             last == s[Len(s)]
         IN IF last \in Range(front) THEN front ELSE Append(front, last)

\* faulty variant: groupby(sort=False), the groups in order of first appearance
TrajData_unsorted(processed) ==
    LET keys == Unique(Column(processed, "TaxiID"))
    IN [i \in DOMAIN keys |-> Values(Group(processed, keys[i]))]

\* processed_df.groupby('TaxiID')[['Latitude', 'Longitude']].apply(lambda x: x.values).tolist()
TrajData(processed) ==
    LET keys == SortedKeys(GroupKeys(processed))
    IN [i \in DOMAIN keys |-> Values(Group(processed, keys[i]))]

\* processed_df['TaxiID'].unique().tolist()
TrajIds(processed) == Unique(Column(processed, "TaxiID"))

\* ------------------------------------------------------------------ state
VARIABLES
    input,          \* the table the run started from
    df,             \* the current table
    df_in,          \* the argument of the last call
    has_speed,      \* 'Speed_kmh' in df.columns
    max_speed_kmh,  \* the threshold of the last filter_invalid_moves call
    sort_kind,      \* how the last preprocess_data's quicksort ordered ties
    traj_data,
    traj_ids,
    pc

vars == <<input, df, df_in, has_speed, max_speed_kmh, sort_kind, traj_data, traj_ids, pc>>

\* ----------------------------------------------------------------- inputs
TaxiIDs == {1, 2}
\* <<DateTime, Latitude, Longitude>> of the uploaded points: timestamps 1 to 5
\* microseconds apart (equal when a point is uploaded twice), NaT, and
\* missing coordinates
Points == {<<0, 0, 0>>, <<1, 0, 1>>, <<3, 0, 1>>, <<5, 0, 0>>,
           <<NaN, 0, 0>>, <<1, NaN, 1>>, <<3, 0, NaN>>}
\* the default threshold, and the speed of one micro-degree in 3 microseconds
MaxSpeeds == {DEFAULT_MAX_SPEED, (ArcLength * 3600) \div 3}
SortKinds == {"stable", "unstable"}

RawRow(i, id, t, lat, lon) ==
    [idx |-> i - 1, TaxiID |-> id, DateTime |-> t,
     Latitude |-> lat, Longitude |-> lon,
     TimeDiff_s |-> NaN, DistJump_m |-> NaN, Speed_kmh |-> NaN]

\* a table after upload_data: a RangeIndex, no derived column
Frame(f) ==
    [i \in DOMAIN f |-> RawRow(i, f[i][1], f[i][2][1], f[i][2][2], f[i][2][3])]

\* a table for preprocess_data alone: every point has its own coordinates
\* (Latitude = TaxiID, Longitude = row number)
BuilderDateTimes == {NaN, 0, 1, 2}
BuilderFrame(f) ==
    [i \in DOMAIN f |-> RawRow(i, f[i][1], f[i][2], f[i][1], i)]

Loaded ==
    /\ df = input
    /\ df_in = <<>>
    /\ has_speed = FALSE
    /\ max_speed_kmh = NaN
    /\ sort_kind = "none"
    /\ traj_data = <<>>
    /\ traj_ids = <<>>
    /\ pc = "loaded"

Init ==
    /\ \E n \in 0..MaxRows :
          \E f \in [1..n -> TaxiIDs \X Points] : input = Frame(f)
    /\ Loaded

\* ---------------------------------------------------------------- actions
CalculateTrajectoryFeatures ==
    /\ pc \in {"loaded", "featured"}
    /\ df_in' = df
    /\ df' = calculate_trajectory_features(df)
    /\ has_speed' = TRUE
    /\ pc' = IF pc = "loaded" THEN "featured" ELSE "refeatured"
    /\ UNCHANGED <<input, max_speed_kmh, sort_kind, traj_data, traj_ids>>

FilterInvalidMoves ==
    /\ pc \in {"loaded", "featured"}
    /\ \E max_speed \in MaxSpeeds :
        /\ df_in' = df
        /\ df' = filter_invalid_moves(df, has_speed, max_speed)
        \* without the Speed_kmh column the threshold is not read
        /\ max_speed_kmh' = IF has_speed THEN max_speed ELSE max_speed_kmh
    /\ pc' = IF has_speed THEN "filtered" ELSE "warned"
    /\ UNCHANGED <<input, has_speed, sort_kind, traj_data, traj_ids>>

\* Two rows of a vehicle with the same timestamp: only then does the order a
\* quicksort leaves depend on its implementation.
HasTies(d) ==
    \E i, j \in DOMAIN d :
        /\ i < j
        /\ d[i].TaxiID = d[j].TaxiID
        /\ notna(d[i].DateTime) /\ d[i].DateTime = d[j].DateTime

PreprocessData ==
    /\ pc \in {"loaded", "filtered"}
    /\ \E kind \in IF HasTies(df) THEN SortKinds ELSE {"stable"} :
        LET processed_df == ProcessedDf(df, kind)
        IN /\ df_in' = df
           /\ df' = processed_df
           /\ traj_data' = TrajData(processed_df)
           /\ traj_ids' = TrajIds(processed_df)
           /\ sort_kind' = kind
    /\ pc' = "built"
    /\ UNCHANGED <<input, has_speed, max_speed_kmh>>

Next == CalculateTrajectoryFeatures \/ FilterInvalidMoves \/ PreprocessData

Spec == Init /\ [][Next]_vars

\* preprocess_data called on any table
BuilderInit ==
    /\ \E n \in 0..MaxBuilderRows :
          \E f \in [1..n -> TaxiIDs \X BuilderDateTimes] : input = BuilderFrame(f)
    /\ Loaded

BuilderNext == PreprocessData

BuilderSpec == BuilderInit /\ [][BuilderNext]_vars

\* ---------------------------------------------------------- claim helpers
Featured == pc \in {"featured", "refeatured"}
Pipeline == pc = "built" /\ has_speed /\ notna(max_speed_kmh)
Rows(d) == {d[i] : i \in DOMAIN d}
FirstOfVehicle(d, k) == \A j \in 1..(k - 1) : d[j].TaxiID # d[k].TaxiID
HasPrev(d, k) == k > 1 /\ d[k - 1].TaxiID = d[k].TaxiID
\* a is b with some rows left out (the rows of b are distinct)
IsSubSeq(a, b) == a = SelectSeq(b, LAMBDA r : r \in Rows(a))

\* C1: after filter_invalid_moves with threshold T the retained points are
\* exactly the points whose Speed_kmh is null or <= T; none has a non-null
\* Speed_kmh > T.
C1_FilterRemovesExactly ==
    pc = "filtered" =>
        /\ \A r \in Rows(df) : ~(notna(r.Speed_kmh) /\ r.Speed_kmh > max_speed_kmh)
        /\ Rows(df) = {r \in Rows(df_in) :
                          isna(r.Speed_kmh) \/ r.Speed_kmh <= max_speed_kmh}
        /\ Cardinality(Rows(df)) = Len(df)

\* one point removed, one kept with a null speed, one kept with speed = T
C1_Witness ==
    /\ pc = "filtered"
    /\ Len(df) < Len(df_in)
    /\ \E r \in Rows(df) : isna(r.Speed_kmh)
    /\ \E r \in Rows(df) : r.Speed_kmh = max_speed_kmh

\* C5: after calculate_trajectory_features the first point of every vehicle
\* has TimeDiff_s, DistJump_m and Speed_kmh null, and a derived value is
\* computed against the preceding point of the same vehicle only.
C5_FirstPointNull ==
    Featured =>
        \A k \in DOMAIN df :
            /\ FirstOfVehicle(df, k) =>
                  isna(df[k].TimeDiff_s) /\ isna(df[k].DistJump_m) /\ isna(df[k].Speed_kmh)
            /\ notna(df[k].TimeDiff_s) =>
                  HasPrev(df, k) /\ df[k].TimeDiff_s = df[k].DateTime - df[k - 1].DateTime
            /\ notna(df[k].DistJump_m) =>
                  /\ HasPrev(df, k)
                  /\ df[k].DistJump_m = haversine(df[k - 1].Longitude, df[k - 1].Latitude,
                                                  df[k].Longitude, df[k].Latitude)

C5_Witness ==
    /\ Featured
    /\ \E k \in DOMAIN df :
        /\ k > 1
        /\ FirstOfVehicle(df, k)
        /\ notna(df[k].DateTime) /\ notna(df[k - 1].DateTime)
        /\ df[k].DateTime - df[k - 1].DateTime > MIN_TIME_DIFF
        /\ notna(df[k].Latitude) /\ notna(df[k].Longitude)
        /\ notna(df[k - 1].Latitude) /\ notna(df[k - 1].Longitude)

\* C6: Speed_kmh is non-null exactly when TimeDiff_s is non-null and > 1e-6
\* and DistJump_m is non-null (the point is not first in its trace, both
\* timestamps are non-null, all four coordinates are non-null), and then it
\* is (DistJump_m / TimeDiff_s) * 3.6; equal timestamps give a null speed.
C6_SpeedDefined ==
    Featured =>
        \A k \in DOMAIN df :
            LET r == df[k] IN
            /\ notna(r.TimeDiff_s) <=>
                  /\ HasPrev(df, k)
                  /\ notna(r.DateTime) /\ notna(df[k - 1].DateTime)
            /\ notna(r.TimeDiff_s) => r.TimeDiff_s = r.DateTime - df[k - 1].DateTime
            /\ notna(r.DistJump_m) <=>
                  /\ HasPrev(df, k)
                  /\ notna(r.Latitude) /\ notna(r.Longitude)
                  /\ notna(df[k - 1].Latitude) /\ notna(df[k - 1].Longitude)
            /\ notna(r.Speed_kmh) <=>
                  /\ notna(r.TimeDiff_s) /\ r.TimeDiff_s > MIN_TIME_DIFF
                  /\ notna(r.DistJump_m)
            /\ notna(r.Speed_kmh) =>
                  r.Speed_kmh = (r.DistJump_m * 3600) \div r.TimeDiff_s
            /\ (HasPrev(df, k) /\ r.DateTime = df[k - 1].DateTime) => isna(r.Speed_kmh)

C6_Witness ==
    /\ Featured
    /\ \E k \in DOMAIN df : df[k].TimeDiff_s = 0 /\ notna(df[k].DistJump_m)
    /\ \E k \in DOMAIN df : df[k].TimeDiff_s = MIN_TIME_DIFF /\ notna(df[k].DistJump_m)

\* C8: calculate_trajectory_features applied to its own output gives the same
\* row order and the same TimeDiff_s, DistJump_m and Speed_kmh for every point.
C8_FeatureDeriverIdempotent ==
    pc = "refeatured" => df = df_in

C8_Witness ==
    /\ pc = "refeatured"
    /\ Column(df, "idx") # Column(input, "idx")
    /\ \E k \in DOMAIN df :
        HasPrev(df, k) /\ df[k].TimeDiff_s = 0 /\ df[k - 1].idx < df[k].idx

Kept(d) == {v \in GroupKeys(d) : Len(Group(d, v)) >= 2}
FirstAppearance(d) == SelectSeq(Unique(Column(d, "TaxiID")), LAMBDA v : v \in Kept(d))
Ascending(S) ==
    [i \in 1..Cardinality(S) |->
        CHOOSE k \in S : Cardinality({j \in S : j < k}) = i - 1]
Pairs(d, v) == {<<r.Latitude, r.Longitude>> : r \in {q \in Rows(d) : q.TaxiID = v}}
\* in the tables of BuilderSpec the latitude of a point is its vehicle
Owner(traj) == traj[1][1]

\* C2: every output trajectory has at least 2 points, the two lists have the
\* same length, and a vehicle is in the output iff at least 2 of its points
\* are in the input.
C2_MinimumLength ==
    pc = "built" =>
        /\ \A i \in DOMAIN traj_data : Len(traj_data[i]) >= 2
        /\ Len(traj_data) = Len(traj_ids)
        /\ \A v \in TaxiIDs :
              LET n == Cardinality({i \in DOMAIN df_in : df_in[i].TaxiID = v})
              IN /\ v \in Range(traj_ids) <=> n >= 2
                 /\ (\E i \in DOMAIN traj_data :
                        \E j \in DOMAIN traj_data[i] : traj_data[i][j][1] = v) <=> n >= 2

C2_Witness ==
    /\ pc = "built"
    /\ \E v \in TaxiIDs : Len(Group(df_in, v)) = 1
    /\ \E v \in TaxiIDs : Len(Group(df_in, v)) >= 2

\* C3: position i of the trajectory list holds exactly the (latitude,
\* longitude) pairs of the points of vehicle traj_ids[i], for every input.
C3_ListsAligned ==
    pc = "built" =>
        \A i \in DOMAIN traj_ids :
            /\ i \in DOMAIN traj_data
            /\ Range(traj_data[i]) = Pairs(df_in, traj_ids[i])

C7_TrajectoriesTimeOrdered ==
    pc = "built" =>
        LET keys == Ascending(GroupKeys(df))
        IN /\ Len(traj_data) = Len(keys)
           /\ \A r \in Rows(df) : \E q \in Rows(df_in) : r = [q EXCEPT !.idx = r.idx]
           /\ \A i \in DOMAIN keys :
                 LET g == Group(df, keys[i])
                 IN /\ traj_data[i] = Values(g)
                    /\ \A j, l \in DOMAIN g :
                          (j < l /\ notna(g[j].DateTime) /\ notna(g[l].DateTime))
                              => g[j].DateTime <= g[l].DateTime

\* the filter removed a point between two retained points of a vehicle
C7_Witness ==
    /\ Pipeline
    /\ Len(traj_data) >= 1
    /\ \E a, b \in Rows(df_in) : \E x \in Rows(input) :
          /\ a.TaxiID = x.TaxiID /\ b.TaxiID = x.TaxiID
          /\ a.idx # b.idx
          /\ x.idx \notin Range(Column(df_in, "idx"))
          /\ notna(a.DateTime) /\ notna(b.DateTime)
          /\ a.DateTime < x.DateTime /\ x.DateTime <= b.DateTime

\* C9: what the pipeline gives for a vehicle (derived values, removed points,
\* trajectory or exclusion) is what it gives for that vehicle's points alone.
TrajectoryOf(v) ==
    LET I == {i \in DOMAIN traj_ids : traj_ids[i] = v}
    IN [k \in 1..Cardinality(I) |-> traj_data[CHOOSE i \in I : TRUE]]

C9_VehicleIsolation ==
    \A v \in TaxiIDs :
        LET alone == calculate_trajectory_features(Group(input, v))
        IN /\ Featured => Group(df, v) = alone
           /\ (pc = "filtered" /\ has_speed) =>
                 Group(df, v) = filter_invalid_moves(alone, TRUE, max_speed_kmh)
           /\ Pipeline =>
                 /\ Cardinality({i \in DOMAIN traj_ids : traj_ids[i] = v}) <= 1
                 /\ Len(traj_data) = Len(traj_ids)
                 /\ TrajectoryOf(v) =
                       TrajData(ProcessedDf(
                           filter_invalid_moves(alone, TRUE, max_speed_kmh), sort_kind))

\* a vehicle has a trajectory while the other vehicle has a point with a
\* missing value
C9_Witness ==
    /\ Pipeline
    /\ \E v \in Range(traj_ids) : \E r \in Rows(input) :
          /\ r.TaxiID # v
          /\ isna(r.DateTime) \/ isna(r.Latitude) \/ isna(r.Longitude)

====
